---------------------------- MODULE Spec2Model ----------------------------
(***************************************************************************)
(* RC5 block cipher, generic over the word type T in {u16, u32, u64}       *)
(* (src/src/lib.rs, src/src/traits.rs).                                    *)
(*                                                                         *)
(* A word of T is a little-endian tuple of 16-bit limbs (1, 2 or 4 limbs), *)
(* so that every intermediate value stays far below 2^31.  A byte vector   *)
(* (Vec<u8>, [u8; N]) is a tuple of numbers in 0..255.  A call of a trait  *)
(* method is executed in steps by a calling thread; frames[t] holds the  *)
(* locals of the call thread t is in.  A panic ends the call with the      *)
(* outcome "Panic".                                                        *)
(***************************************************************************)
EXTENDS Integers, Sequences, FiniteSets, TLC

VARIABLES
    key,       \* RC5.key: Vec<u8>
    words,     \* RC5.words: usize
    rounds,    \* RC5.rounds: usize
    bytes,     \* RC5.bytes: usize
    data,      \* RC5.data: PhantomData<T>, as size_of::<T>() in bytes
    threads,   \* the threads that share &self
    frames,    \* thread -> the locals of its current call
    memo       \* some earlier completed call of encode/decode/generate_block_cipher

engine == <<key, words, rounds, bytes, data>>
vars == <<key, words, rounds, bytes, data, threads, frames, memo>>

---------------------------------------------------------------------------
(* Bounds of the model.                                                    *)
MaxRounds == 1
MaxKeyLen == 4
MaxChain == 1

---------------------------------------------------------------------------
(* Results of fallible helper operations: a value or a panic.              *)
Good(v) == [ok |-> TRUE, v |-> v, why |-> ""]
Bad(why) == [ok |-> FALSE, v |-> <<>>, why |-> why]

(* The three integer types of impl_unsigned_16_to_64!, by size in bytes.   *)
TypeSizes == {2, 4, 8}
NLimbs(tb) == tb \div 2
BitsOf(x) == 16 * Len(x)

\* Self::MIN
min(tb) == [k \in 1..NLimbs(tb) |-> 0]

\* (val as Self) for a usize below 2^31 (every usize of the model is)
from_usize(val, tb) ==
    [k \in 1..NLimbs(tb) |->
        IF k = 1 THEN val % 65536
        ELSE IF k = 2 THEN (val \div 65536) % 65536
        ELSE 0]

\* (*self as usize), for the values the code converts (only T::min())
to_usize(x) == IF Len(x) = 1 THEN x[1] ELSE x[1] + 65536 * (x[2] % 32768)

\* <$ty>::from_le_bytes on [u8; size_of::<Self>()]
from_le_bytes(bs) ==
    [k \in 1..(Len(bs) \div 2) |-> bs[2 * k - 1] + 256 * bs[2 * k]]

\* self.to_le_bytes()
to_le_bytes(x) ==
    [m \in 1..(2 * Len(x)) |->
        IF m % 2 = 1 THEN x[(m + 1) \div 2] % 256 ELSE x[m \div 2] \div 256]

\* output.copy_from_slice(plaintext[start..end]) into [0u8; size_of::<Self>()]
copy_from_slice(plaintext, start, end, tb) ==
    IF start > end
    THEN Bad("slice index starts after its end")
    ELSE IF end > Len(plaintext)
    THEN Bad("range end index out of range for slice")
    ELSE IF end - start # tb
    THEN Bad("source slice length does not match destination slice length")
    ELSE Good(SubSeq(plaintext, start + 1, end))

RECURSIVE CarryInto(_, _, _, _)
\* the carry into limb k of x + y + c0
CarryInto(x, y, k, c0) ==
    IF k = 1 THEN c0
    ELSE (x[k - 1] + y[k - 1] + CarryInto(x, y, k - 1, c0)) \div 65536

wrapping_add(x, y) ==
    [k \in 1..Len(x) |-> (x[k] + y[k] + CarryInto(x, y, k, 0)) % 65536]

\* x - y mod 2^W, as x + ~y + 1
wrapping_sub(x, y) ==
    LET ny == [k \in 1..Len(y) |-> 65535 - y[k]]
    IN  [k \in 1..Len(x) |-> (x[k] + ny[k] + CarryInto(x, ny, k, 1)) % 65536]

RECURSIVE MulColumn(_, _, _, _)
\* sum of xb[i] * yb[p + 1 - i] for i in 1..n
MulColumn(xb, yb, p, n) ==
    IF n = 0 THEN 0
    ELSE xb[n] * yb[p + 1 - n] + MulColumn(xb, yb, p, n - 1)

RECURSIVE MulBytes(_, _, _, _)
\* the bytes p..Len(xb) of the product of two little-endian byte strings
MulBytes(xb, yb, p, carry) ==
    IF p > Len(xb) THEN <<>>
    ELSE LET s == carry + MulColumn(xb, yb, p, p)
         IN  <<s % 256>> \o MulBytes(xb, yb, p + 1, s \div 256)

wrapping_mul(x, y) ==
    from_le_bytes(MulBytes(to_le_bytes(x), to_le_bytes(y), 1, 0))

RECURSIVE XorBits(_, _, _)
XorBits(a, b, n) ==
    IF n = 0 THEN 0
    ELSE ((a + b) % 2) + 2 * XorBits(a \div 2, b \div 2, n - 1)

\* self ^ other
xor(x, y) == [k \in 1..Len(x) |-> XorBits(x[k], y[k], 16)]

Pow2(n) == 2 ^ n

\* the primitive <$ty>::rotate_left(self, n: u32): circular, by n mod W
\* (n is a u32 held as two limbs; W divides 2^16, so n mod W is n[1] mod W)
prim_rotate_left(x, n) ==
    LET len == Len(x)
        r == n[1] % BitsOf(x)
        q == r \div 16
        s == r % 16
        from(k) == ((k - 1 - q + 2 * len) % len) + 1
    IN  [k \in 1..len |->
            ((x[from(k)] % Pow2(16 - s)) * Pow2(s))
            + (x[from(k - 1)] \div Pow2(16 - s))]

\* the primitive <$ty>::rotate_right(self, n: u32)
prim_rotate_right(x, n) ==
    LET len == Len(x)
        r == n[1] % BitsOf(x)
        q == r \div 16
        s == r % 16
        from(k) == ((k - 1 + q) % len) + 1
    IN  [k \in 1..len |->
            (x[from(k)] \div Pow2(s))
            + ((x[from(k + 1)] % Pow2(s)) * Pow2(16 - s))]

\* other.try_into() to u32: an error when the value does not fit 32 bits
try_into_u32(other) ==
    IF \E k \in 3..Len(other) : other[k] # 0
    THEN Bad("unwrap on an Err value: TryFromIntError")
    ELSE Good(<<other[1], IF Len(other) >= 2 THEN other[2] ELSE 0>>)

\* Unsigned16To64::rotate_left
rotate_left(x, other) ==
    LET n == try_into_u32(other)
    IN  IF n.ok THEN Good(prim_rotate_left(x, n.v)) ELSE Bad(n.why)

\* Unsigned16To64::rotate_right
rotate_right(x, other) ==
    LET n == try_into_u32(other)
    IN  IF n.ok THEN Good(prim_rotate_right(x, n.v)) ELSE Bad(n.why)

\* CipherMagicConstants::P_W and Q_W, as strings of hexadecimal digits
P_W(tb) ==
    IF tb = 2 THEN <<11, 7, 14, 1>>
    ELSE IF tb = 4 THEN <<11, 7, 14, 1, 5, 1, 6, 3>>
    ELSE <<11, 7, 14, 1, 5, 1, 6, 2, 8, 10, 14, 13, 2, 10, 6, 11>>

Q_W(tb) ==
    IF tb = 2 THEN <<9, 14, 3, 7>>
    ELSE IF tb = 4 THEN <<9, 14, 3, 7, 7, 9, 11, 9>>
    ELSE <<9, 14, 3, 7, 7, 9, 11, 9, 7, 15, 4, 7, 12, 1, 5>>

\* Self::from_str_radix(val, 16).unwrap(), for a string that fits the type
from_str_radix(val, tb) ==
    LET digit(p) == IF p < Len(val) THEN val[Len(val) - p] ELSE 0
    IN  [k \in 1..NLimbs(tb) |->
            digit(4 * (k - 1)) + 16 * digit(4 * (k - 1) + 1)
            + 256 * digit(4 * (k - 1) + 2) + 4096 * digit(4 * (k - 1) + 3)]

---------------------------------------------------------------------------
(* The result of a call: Ok(..), Err(msg) or a panic raised at step at.    *)
NoOutcome ==
    [kind |-> "None", bytes |-> <<>>, table |-> <<>>, word |-> <<>>,
     msg |-> "", at |-> ""]
OkBytes(bs) == [NoOutcome EXCEPT !.kind = "Ok", !.bytes = bs]
OkTable(tab) == [NoOutcome EXCEPT !.kind = "Ok", !.table = tab]
OkWord(w) == [NoOutcome EXCEPT !.kind = "Ok", !.word = w]
Err(msg) == [NoOutcome EXCEPT !.kind = "Err", !.msg = msg]
Panicked(why, at) == [NoOutcome EXCEPT !.kind = "Panic", !.msg = why, !.at = at]

(* The locals of one call.  i, j, a_block, b_block, l, s_table are those   *)
(* of generate_block_cipher; iter counts the passes of its mixing loop,    *)
(* round is the index of the round loop of encode/decode.                  *)
IdleFrame ==
    [pc |-> "idle", op |-> "none", plaintext |-> <<>>,
     self_ |-> <<>>, other |-> <<>>, depth |-> 0,
     a_from_le_bytes |-> <<>>, b_from_le_bytes |-> <<>>,
     l |-> <<>>, s_table |-> <<>>, i |-> 0, j |-> 0,
     a_block |-> <<>>, b_block |-> <<>>, iter |-> 0, round |-> 0,
     outcome |-> NoOutcome]

NoMemo == [op |-> "none", plaintext |-> <<>>, depth |-> 0, outcome |-> NoOutcome]
MemoOf(f) ==
    [op |-> f.op, plaintext |-> f.plaintext, depth |-> f.depth, outcome |-> f.outcome]

Panic(f, why) == [f EXCEPT !.pc = "ret", !.outcome = Panicked(why, f.pc)]

\* v[idx] of a Vec, zero-based, with its bounds check
Index(v, idx) ==
    IF idx < Len(v) THEN Good(v[idx + 1]) ELSE Bad("index out of bounds")

Max(a, b) == IF a >= b THEN a ELSE b

---------------------------------------------------------------------------
(* The engines and inputs of the model.                                    *)

\* tests::WORDS, tests::ROUNDS, tests::BYTES
WORDS == 4
ROUNDS == 12
BYTES == 16

\* the keys, plaintexts and ciphertexts of tests::encode_a and tests::encode_b
KeyA == [k \in 1..16 |-> k - 1]
KeyB == <<43, 214, 69, 159, 130, 197, 179, 0, 149, 44, 73, 16, 72, 129, 255, 72>>
PtA == <<0, 17, 34, 51, 68, 85, 102, 119>>
CtA == <<45, 220, 20, 155, 207, 8, 139, 158>>
PtB == <<234, 2, 71, 20, 173, 92, 77, 132>>
CtB == <<17, 228, 59, 134, 210, 49, 234, 100>>

KeyOf(n) == [k \in 1..n |-> (37 * k + 11) % 256]
BlockOf(n) == [k \in 1..n |-> (53 * k + 101) % 256]

\* key lengths: short ones, whole numbers of words, more words than the
\* table has entries, and one whose length does not fit a u8
KeyLens == (0..MaxKeyLen) \cup {8, 12, 256}

Engine(k, w, r, b, tb) ==
    [key |-> k, words |-> w, rounds |-> r, bytes |-> b, data |-> tb]

\* RC5::<T>::new(key, words, rounds, bytes)
Engines ==
    {Engine(KeyOf(n), tb, r, n, tb) :
        tb \in TypeSizes, r \in 0..MaxRounds, n \in KeyLens}
    \cup {Engine(KeyOf(n), tb, 0, BYTES, tb) : tb \in TypeSizes, n \in {0, WORDS}}
    \cup {Engine(k, WORDS, ROUNDS, BYTES, 4) : k \in {KeyA, KeyB}}
    \cup {Engine(<<>>, 2, 0, 0, 4), Engine(<<>>, 4, 0, 0, 2)}

\* the engine shared by two threads
SharedEngines ==
    {Engine(KeyOf(WORDS), WORDS, 0, WORDS, 4)}

Shared == Cardinality(threads) > 1

\* the blocks a caller passes to encode and decode
Blocks ==
    IF rounds = ROUNDS THEN {PtA, PtB}
    ELSE IF Shared THEN {BlockOf(2 * words)}
    ELSE {BlockOf(2 * words), BlockOf(2 * words - 1), BlockOf(2 * words + 1)}

\* the result of the remembered call, passed on as the next input
Chained ==
    IF /\ memo.op \in {"encode", "decode"}
       /\ memo.outcome.kind = "Ok"
       /\ memo.depth < MaxChain
    THEN {memo.outcome.bytes}
    ELSE {}

\* the operands of direct calls of T::rotate_left and T::rotate_right
SampleValues ==
    {[k \in 1..NLimbs(data) |-> (4660 + 4369 * k) % 65536]}
    \cup (IF Shared THEN {} ELSE {[k \in 1..NLimbs(data) |-> IF k = 1 THEN 1 ELSE 0]})
SampleAmounts ==
    {from_usize(n, data) : n \in (IF Shared THEN {17} ELSE {0, 3, 17, 65})}
    \cup {[k \in 1..NLimbs(data) |-> 65535]}
    \cup (IF Shared THEN {}
          ELSE {[k \in 1..NLimbs(data) |-> IF k = NLimbs(data) THEN 1 ELSE 0]})

Init ==
    /\ \/ /\ threads = {1}
          /\ \E e \in Engines :
                /\ key = e.key /\ words = e.words /\ rounds = e.rounds
                /\ bytes = e.bytes /\ data = e.data
       \/ /\ threads = {1, 2}
          /\ \E e \in SharedEngines :
                /\ key = e.key /\ words = e.words /\ rounds = e.rounds
                /\ bytes = e.bytes /\ data = e.data
    /\ frames = [t \in threads |-> IdleFrame]
    /\ memo = NoMemo

Frame(t, f) == frames' = [frames EXCEPT ![t] = f]

---------------------------------------------------------------------------
(* Calls.                                                                  *)

\* rc_5.encode(plaintext) or rc_5.decode(plaintext)
Call(t) ==
    /\ frames[t].pc = "idle"
    /\ \E o \in {"encode", "decode"}, p \in Blocks \cup Chained :
          Frame(t, [IdleFrame EXCEPT
                       !.pc = "check", !.op = o, !.plaintext = p,
                       !.depth = IF p \in Blocks THEN 0 ELSE memo.depth + 1])
    /\ UNCHANGED <<engine, threads, memo>>

\* rc_5.generate_block_cipher()
CallGenerate(t) ==
    /\ frames[t].pc = "idle"
    /\ Frame(t, [IdleFrame EXCEPT !.pc = "build_l", !.op = "generate_block_cipher"])
    /\ UNCHANGED <<engine, threads, memo>>

\* T::rotate_left(x, n) or T::rotate_right(x, n)
CallRotate(t) ==
    /\ frames[t].pc = "idle"
    /\ \E o \in {"rotate_left", "rotate_right"}, x \in SampleValues, n \in SampleAmounts :
          LET r == IF o = "rotate_left" THEN rotate_left(x, n) ELSE rotate_right(x, n)
              f == [IdleFrame EXCEPT !.pc = "rotate", !.op = o, !.self_ = x, !.other = n]
          IN  Frame(t, IF r.ok THEN [f EXCEPT !.pc = "ret", !.outcome = OkWord(r.v)]
                       ELSE Panic(f, r.why))
    /\ UNCHANGED <<engine, threads, memo>>

\* the call returns (or unwinds): its locals are dropped
Return(t) ==
    /\ frames[t].pc = "ret"
    /\ Frame(t, IdleFrame)
    /\ IF frames[t].op \in {"encode", "decode", "generate_block_cipher"}
       THEN memo' \in {memo, MemoOf(frames[t])}
       ELSE memo' = memo
    /\ UNCHANGED <<engine, threads>>

---------------------------------------------------------------------------
(* encode and decode, up to the key schedule.                              *)

KeyLengthError(o) ==
    IF o = "encode" THEN "invalid encryption key length"
    ELSE "invalid decryption key length"

\* KeyLengthCheck, going on to the slicing without the check
KeyLengthCheck_unchecked(t) ==
    LET f == frames[t]
    IN  /\ f.pc = "check"
        /\ Frame(t, [f EXCEPT !.pc = "slice"])
        /\ UNCHANGED <<engine, threads, memo>>

\* if self.key.len() != self.bytes { return Err(..) }
KeyLengthCheck(t) ==
    LET f == frames[t]
    IN  /\ f.pc = "check"
        /\ IF Len(key) # bytes
           THEN Frame(t, [f EXCEPT !.pc = "ret", !.outcome = Err(KeyLengthError(f.op))])
           ELSE Frame(t, [f EXCEPT !.pc = "slice"])
        /\ UNCHANGED <<engine, threads, memo>>

\* get A block, get B block
Slice(t) ==
    LET f == frames[t]
        a_bytes == copy_from_slice(f.plaintext, 0, words, data)
        b_bytes == copy_from_slice(f.plaintext, words, Len(f.plaintext), data)
    IN  /\ f.pc = "slice"
        /\ IF ~a_bytes.ok THEN Frame(t, Panic(f, a_bytes.why))
           ELSE IF ~b_bytes.ok THEN Frame(t, Panic(f, b_bytes.why))
           ELSE Frame(t, [f EXCEPT !.pc = "build_l",
                                   !.a_from_le_bytes = from_le_bytes(a_bytes.v),
                                   !.b_from_le_bytes = from_le_bytes(b_bytes.v)])
        /\ UNCHANGED <<engine, threads, memo>>

---------------------------------------------------------------------------
(* generate_block_cipher.                                                  *)

\* the end of the key slice that starts at byte i
ChunkEnd(i) == i + 4

\* let mut l = ...: [0] for the empty key, else one word for every
\* i in (0..(key.len() as u8)).step_by(words)
ExpandedKey ==
    IF Len(key) = 0 THEN Good(<<min(data)>>)
    ELSE LET n == Len(key) % 256
             count == (n + words - 1) \div words
             chunk(c) == copy_from_slice(key, (c - 1) * words,
                                         ChunkEnd((c - 1) * words), data)
             bad == {c \in 1..count : ~chunk(c).ok}
         IN  IF bad # {}
             THEN Bad(chunk(CHOOSE c \in bad : \A d \in bad : c <= d).why)
             ELSE Good([c \in 1..count |-> from_le_bytes(chunk(c).v)])

BuildL(t) ==
    LET f == frames[t]
        r == ExpandedKey
    IN  /\ f.pc = "build_l"
        /\ IF r.ok THEN Frame(t, [f EXCEPT !.pc = "init_s", !.l = r.v])
           ELSE Frame(t, Panic(f, r.why))
        /\ UNCHANGED <<engine, threads, memo>>

\* s_table[x] = x * Q_W + P_W for x in 0..2 * (rounds + 1)
InitialTable ==
    LET p_w == from_str_radix(P_W(data), data)
        q_w == from_str_radix(Q_W(data), data)
    IN  [x \in 1..(2 * (rounds + 1)) |->
            wrapping_add(wrapping_mul(from_usize(x - 1, data), q_w), p_w)]

InitS(t) ==
    LET f == frames[t]
    IN  /\ f.pc = "init_s"
        /\ Frame(t, [f EXCEPT !.pc = "mix", !.s_table = InitialTable,
                              !.i = to_usize(min(data)), !.j = to_usize(min(data)),
                              !.a_block = min(data), !.b_block = min(data),
                              !.iter = 0])
        /\ UNCHANGED <<engine, threads, memo>>

\* max_iters
MaxIters(f) == Max(Len(f.s_table), Len(f.l))

\* a_block = (s_table[i] + a_block + b_block).rotate_left(3)
MixA(f) ==
    LET si == Index(f.s_table, f.i)
    IN  IF ~si.ok THEN si
        ELSE rotate_left(wrapping_add(wrapping_add(si.v, f.a_block), f.b_block),
                         from_usize(3, data))

\* MixB, rotating by a_block alone
MixB_rotateByA(f, a) ==
    LET lj == Index(f.l, f.j)
    IN  IF ~lj.ok THEN lj
        ELSE rotate_left(wrapping_add(wrapping_add(lj.v, a), f.b_block), a)

\* b_block = (l[j] + a_block + b_block).rotate_left(a_block + b_block),
\* with a the a_block just computed
MixB(f, a) ==
    LET lj == Index(f.l, f.j)
    IN  IF ~lj.ok THEN lj
        ELSE rotate_left(wrapping_add(wrapping_add(lj.v, a), f.b_block),
                         wrapping_add(a, f.b_block))

\* MixStep, with l built in place over the engine's key
MixStep_inPlace(t) ==
    LET f == frames[t]
        a == MixA(f)
        b == MixB(f, a.v)
    IN  /\ f.pc = "mix"
        /\ f.iter < 3 * MaxIters(f)
        /\ IF ~a.ok THEN Frame(t, Panic(f, a.why)) /\ key' = key
           ELSE IF ~b.ok THEN Frame(t, Panic(f, b.why)) /\ key' = key
           ELSE /\ Frame(t, [f EXCEPT !.a_block = a.v, !.b_block = b.v,
                                      !.s_table[f.i + 1] = a.v,
                                      !.l[f.j + 1] = b.v,
                                      !.i = (f.i + 1) % Len(f.s_table),
                                      !.j = (f.j + 1) % Len(f.l),
                                      !.iter = f.iter + 1])
                /\ key' = [k \in 1..Len(key) |->
                              IF k \in (f.j * words + 1)..(f.j * words + data)
                              THEN to_le_bytes(b.v)[k - f.j * words]
                              ELSE key[k]]
        /\ UNCHANGED <<words, rounds, bytes, data, threads, memo>>

\* one pass of for _ in 0..(3 * max_iters)
MixStep(t) ==
    LET f == frames[t]
        a == MixA(f)
        b == MixB(f, a.v)
    IN  /\ f.pc = "mix"
        /\ f.iter < 3 * MaxIters(f)
        /\ IF ~a.ok THEN Frame(t, Panic(f, a.why))
           ELSE IF ~b.ok THEN Frame(t, Panic(f, b.why))
           ELSE Frame(t, [f EXCEPT !.a_block = a.v, !.b_block = b.v,
                                   !.s_table[f.i + 1] = a.v,
                                   !.l[f.j + 1] = b.v,
                                   !.i = (f.i + 1) % Len(f.s_table),
                                   !.j = (f.j + 1) % Len(f.l),
                                   !.iter = f.iter + 1])
        /\ UNCHANGED <<engine, threads, memo>>

\* the loop ends and generate_block_cipher returns s_table
MixDone(t) ==
    LET f == frames[t]
    IN  /\ f.pc = "mix"
        /\ f.iter >= 3 * MaxIters(f)
        /\ Frame(t, CASE f.op = "generate_block_cipher" ->
                           [f EXCEPT !.pc = "ret", !.outcome = OkTable(f.s_table)]
                      [] f.op = "encode" -> [f EXCEPT !.pc = "whiten"]
                      [] OTHER -> [f EXCEPT !.pc = "rounds", !.round = rounds])
        /\ UNCHANGED <<engine, threads, memo>>

---------------------------------------------------------------------------
(* The rounds of encode and decode.                                        *)

\* initialize encryption of blocks A and B
Whiten(t) ==
    LET f == frames[t]
    IN  /\ f.pc = "whiten"
        /\ Frame(t, [f EXCEPT
                        !.pc = "rounds", !.round = 1,
                        !.a_from_le_bytes = wrapping_add(f.a_from_le_bytes, f.s_table[1]),
                        !.b_from_le_bytes = wrapping_add(f.b_from_le_bytes, f.s_table[2])])
        /\ UNCHANGED <<engine, threads, memo>>

\* a = (a ^ b).rotate_left(b) + s_table[2 * i]
EncA(f) ==
    LET r == rotate_left(xor(f.a_from_le_bytes, f.b_from_le_bytes), f.b_from_le_bytes)
    IN  IF r.ok THEN Good(wrapping_add(r.v, f.s_table[2 * f.round + 1])) ELSE r

\* EncB, reading the A of before the round
EncB_staleA(f, a) ==
    LET r == rotate_left(xor(f.b_from_le_bytes, f.a_from_le_bytes), f.a_from_le_bytes)
    IN  IF r.ok THEN Good(wrapping_add(r.v, f.s_table[2 * f.round + 2])) ELSE r

\* b = (b ^ a).rotate_left(a) + s_table[2 * i + 1], with a just computed
EncB(f, a) ==
    LET r == rotate_left(xor(f.b_from_le_bytes, a), a)
    IN  IF r.ok THEN Good(wrapping_add(r.v, f.s_table[2 * f.round + 2])) ELSE r

\* one pass of for i in 1..(self.rounds + 1) of encode
RoundEnc(t) ==
    LET f == frames[t]
        a == EncA(f)
        b == EncB(f, a.v)
    IN  /\ f.pc = "rounds" /\ f.op = "encode"
        /\ f.round < rounds + 1
        /\ IF ~a.ok THEN Frame(t, Panic(f, a.why))
           ELSE IF ~b.ok THEN Frame(t, Panic(f, b.why))
           ELSE Frame(t, [f EXCEPT !.a_from_le_bytes = a.v, !.b_from_le_bytes = b.v,
                                   !.round = f.round + 1])
        /\ UNCHANGED <<engine, threads, memo>>

\* the ciphertext: A's bytes, then B's
EncodeDone(t) ==
    LET f == frames[t]
    IN  /\ f.pc = "rounds" /\ f.op = "encode"
        /\ f.round >= rounds + 1
        /\ Frame(t, [f EXCEPT !.pc = "ret",
                              !.outcome = OkBytes(to_le_bytes(f.a_from_le_bytes)
                                                  \o to_le_bytes(f.b_from_le_bytes))])
        /\ UNCHANGED <<engine, threads, memo>>

\* b = (b - s_table[2 * i + 1]).rotate_right(a) ^ a
DecB(f) ==
    LET r == rotate_right(wrapping_sub(f.b_from_le_bytes, f.s_table[2 * f.round + 2]),
                          f.a_from_le_bytes)
    IN  IF r.ok THEN Good(xor(r.v, f.a_from_le_bytes)) ELSE r

\* a = (a - s_table[2 * i]).rotate_right(b) ^ b, with b just computed
DecA(f, b) ==
    LET r == rotate_right(wrapping_sub(f.a_from_le_bytes, f.s_table[2 * f.round + 1]), b)
    IN  IF r.ok THEN Good(xor(r.v, b)) ELSE r

\* one pass of for i in (1..(self.rounds + 1)).rev() of decode
RoundDec(t) ==
    LET f == frames[t]
        b == DecB(f)
        a == DecA(f, b.v)
    IN  /\ f.pc = "rounds" /\ f.op = "decode"
        /\ f.round >= 1
        /\ IF ~b.ok THEN Frame(t, Panic(f, b.why))
           ELSE IF ~a.ok THEN Frame(t, Panic(f, a.why))
           ELSE Frame(t, [f EXCEPT !.a_from_le_bytes = a.v, !.b_from_le_bytes = b.v,
                                   !.round = f.round - 1])
        /\ UNCHANGED <<engine, threads, memo>>

\* last iteration, and the plaintext: A's bytes, then B's
DecodeDone(t) ==
    LET f == frames[t]
        a == wrapping_sub(f.a_from_le_bytes, f.s_table[1])
        b == wrapping_sub(f.b_from_le_bytes, f.s_table[2])
    IN  /\ f.pc = "rounds" /\ f.op = "decode"
        /\ f.round < 1
        /\ Frame(t, [f EXCEPT !.pc = "ret",
                              !.a_from_le_bytes = a, !.b_from_le_bytes = b,
                              !.outcome = OkBytes(to_le_bytes(a) \o to_le_bytes(b))])
        /\ UNCHANGED <<engine, threads, memo>>

---------------------------------------------------------------------------
Next ==
    \/ \E t \in threads : Call(t)
    \/ \E t \in threads : CallGenerate(t)
    \/ \E t \in threads : CallRotate(t)
    \/ \E t \in threads : KeyLengthCheck(t)
    \/ \E t \in threads : Slice(t)
    \/ \E t \in threads : BuildL(t)
    \/ \E t \in threads : InitS(t)
    \/ \E t \in threads : MixStep(t)
    \/ \E t \in threads : MixDone(t)
    \/ \E t \in threads : Whiten(t)
    \/ \E t \in threads : RoundEnc(t)
    \/ \E t \in threads : EncodeDone(t)
    \/ \E t \in threads : RoundDec(t)
    \/ \E t \in threads : DecodeDone(t)
    \/ \E t \in threads : Return(t)

Spec == Init /\ [][Next]_vars

---------------------------------------------------------------------------
(* Vocabulary of the properties.                                           *)

\* an engine as the specification constructs it: the word type is the one
\* of word_bytes, and the key has the configured length
ValidEngine == data \in TypeSizes /\ words = data /\ Len(key) = bytes

CipherOp(f) == f.op \in {"encode", "decode"}
FullBlock(p) == Len(p) = 2 * words

\* bit k (0 the lowest) of a word
Bit(x, k) == (x[(k \div 16) + 1] \div Pow2(k % 16)) % 2

\* a W-bit amount taken mod W (W divides 2^16)
AmountModW(n) == n[1] % BitsOf(n)

\* y is x rotated left circularly by r positions
IsRotl(y, x, r) ==
    LET yv == y
        xv == x
        rv == r
    IN  /\ Len(yv) = Len(xv)
        /\ \A k \in 0..(BitsOf(xv) - 1) :
              Bit(yv, (k + rv) % BitsOf(xv)) = Bit(xv, k)

KnownEngine(k) ==
    /\ data = 4 /\ words = WORDS /\ rounds = ROUNDS /\ bytes = BYTES /\ key = k

---------------------------------------------------------------------------
\* C1: on a valid engine (word_bytes in {2, 4, 8}, any rounds, key of the
\* configured length), encode of a block of 2 * word_bytes bytes succeeds,
\* and decode of its result succeeds and returns the block.
C1_RoundTrip ==
    \A t \in threads :
        LET f == frames[t]
        IN  (ValidEngine /\ f.pc = "ret" /\ CipherOp(f) /\ FullBlock(f.plaintext)) =>
               /\ f.op = "encode" => f.outcome.kind = "Ok"
               /\ ( /\ f.op = "decode"
                    /\ memo.op = "encode" /\ memo.outcome.kind = "Ok"
                    /\ FullBlock(memo.plaintext)
                    /\ f.plaintext = memo.outcome.bytes )
                  => f.outcome = OkBytes(memo.plaintext)

\* C2: with word_bytes = 4, rounds = 12 and key_bytes_len = 16, encode maps
\* the plaintext of each of the two known vectors, under its key, to exactly
\* its ciphertext.
C2_KnownVectors ==
    \A t \in threads :
        LET f == frames[t]
        IN  (f.pc = "ret" /\ f.op = "encode") =>
               /\ (KnownEngine(KeyA) /\ f.plaintext = PtA) => f.outcome = OkBytes(CtA)
               /\ (KnownEngine(KeyB) /\ f.plaintext = PtB) => f.outcome = OkBytes(CtB)

\* the second known vector has been encoded
C2_Witness ==
    \E t \in threads :
        /\ KnownEngine(KeyB)
        /\ frames[t].pc = "ret" /\ frames[t].op = "encode"
        /\ frames[t].plaintext = PtB /\ frames[t].outcome.kind = "Ok"

\* C3: when the key's length differs from key_bytes_len, a call of encode or
\* decode does nothing but return its error: it never reaches the slicing of
\* the block or the key schedule, whatever the block.
C3_KeyLengthCheckedFirst ==
    \A t \in threads :
        LET f == frames[t]
        IN  (Len(key) # bytes /\ CipherOp(f)) =>
               /\ f.pc \in {"check", "ret"}
               /\ f.pc = "ret" => f.outcome = Err(KeyLengthError(f.op))
               /\ f.l = <<>> /\ f.s_table = <<>>
               /\ f.a_from_le_bytes = <<>> /\ f.b_from_le_bytes = <<>>

\* decode of a block of the wrong length has returned the key-length error
C3_Witness ==
    \E t \in threads :
        /\ Len(key) # bytes
        /\ frames[t].pc = "ret" /\ frames[t].op = "decode"
        /\ ~FullBlock(frames[t].plaintext)
        /\ frames[t].outcome = Err("invalid decryption key length")

\* C4: on a valid engine, decode of a block of 2 * word_bytes bytes succeeds
\* with a block of the same size, and encode of its result returns the block.
C4_Bijective ==
    \A t \in threads :
        LET f == frames[t]
        IN  (ValidEngine /\ f.pc = "ret" /\ CipherOp(f) /\ FullBlock(f.plaintext)) =>
               /\ f.op = "decode" =>
                     f.outcome.kind = "Ok" /\ FullBlock(f.outcome.bytes)
               /\ ( /\ f.op = "encode"
                    /\ memo.op = "decode" /\ memo.outcome.kind = "Ok"
                    /\ FullBlock(memo.plaintext)
                    /\ f.plaintext = memo.outcome.bytes )
                  => f.outcome = OkBytes(memo.plaintext)

\* C5: on a valid engine, whatever the key's length, the key schedule never
\* faults, and generate_block_cipher returns a table of 2 * (rounds + 1) words.
C5_KeyScheduleTotal ==
    \A t \in threads :
        LET f == frames[t]
        IN  ValidEngine =>
               /\ f.outcome.kind = "Panic" =>
                     f.outcome.at \notin {"build_l", "init_s", "mix"}
               /\ (f.pc = "ret" /\ f.op = "generate_block_cipher") =>
                     /\ f.outcome.kind = "Ok"
                     /\ Len(f.outcome.table) = 2 * (rounds + 1)

\* C6: when the key has the configured length and the block is not of
\* 2 * word_bytes bytes, encode and decode return an error value.
C6_BlockLengthError ==
    \A t \in threads :
        LET f == frames[t]
        IN  ( /\ ValidEngine /\ f.pc = "ret" /\ CipherOp(f)
              /\ ~FullBlock(f.plaintext) )
            => f.outcome.kind = "Err"

\* what a call is given
SameCall(c, d) ==
    /\ c.op = d.op /\ c.plaintext = d.plaintext
    /\ (c.op \in {"rotate_left", "rotate_right"} =>
           c.self_ = d.self_ /\ c.other = d.other)

\* a returning call agrees with the remembered call of the same inputs, and
\* with a call of the same inputs returning on another thread
Deterministic ==
    \A t \in threads :
        frames[t].pc = "ret" =>
           /\ SameCall(MemoOf(frames[t]), memo) => frames[t].outcome = memo.outcome
           /\ \A u \in threads :
                 (frames[u].pc = "ret" /\ SameCall(frames[t], frames[u]))
                 => frames[t].outcome = frames[u].outcome

\* C7: no step of any call, on any thread, changes the engine's key, words,
\* rounds or bytes, and calls with identical inputs return identical results
\* whatever ran before or runs beside them.
C7_ImmutableDeterministic ==
    [][engine' = engine /\ Deterministic']_vars

\* a repeated encode returns while the other thread is inside the key schedule
C7_Witness ==
    /\ Shared
    /\ frames[1].pc = "ret" /\ frames[1].op = "encode"
    /\ frames[1].outcome.kind = "Ok"
    /\ memo.op = "encode" /\ memo.plaintext = frames[1].plaintext
    /\ frames[2].pc = "mix" /\ frames[2].iter > 0

\* C8: rotate_left and rotate_right never fail, for any word and any amount
\* of the word's type, and rotate circularly by the amount mod W.
C8_RotateTotal ==
    \A t \in threads :
        LET f == frames[t]
        IN  (f.pc = "ret" /\ f.op \in {"rotate_left", "rotate_right"}) =>
               /\ f.outcome.kind = "Ok"
               /\ f.op = "rotate_left" =>
                     IsRotl(f.outcome.word, f.self_, AmountModW(f.other))
               /\ f.op = "rotate_right" =>
                     IsRotl(f.self_, f.outcome.word, AmountModW(f.other))

\* thread t completes a pass of the mixing loop in this step
MixPass(t) ==
    /\ frames[t].pc = "mix" /\ frames'[t].pc = "mix"
    /\ frames'[t].iter = frames[t].iter + 1

\* the pass updates A to (S[i] + A + B) rotated left by 3, and stores the
\* new A and B in S[i] and L[j]
MixPassStores(t) ==
    LET f == frames[t]
        g == frames'[t]
    IN  /\ IsRotl(g.a_block,
                  wrapping_add(wrapping_add(f.s_table[f.i + 1], f.a_block), f.b_block),
                  3)
        /\ g.s_table[f.i + 1] = g.a_block
        /\ g.l[f.j + 1] = g.b_block

\* C9, as stated: in every pass of the mixing loop the new B is
\* (L[j] + A + B) rotated left by the just-updated A alone, mod W.
C9_MixRotatesByA ==
    [][\A t \in threads :
          MixPass(t) =>
             /\ MixPassStores(t)
             /\ IsRotl(frames'[t].b_block,
                       wrapping_add(wrapping_add(frames[t].l[frames[t].j + 1],
                                                 frames'[t].a_block),
                                    frames[t].b_block),
                       AmountModW(frames'[t].a_block))]_vars

\* C9, amended: in every pass of the mixing loop that completes, the new B
\* is (L[j] + A + B) rotated left by (A + B) mod W, where A is the
\* just-updated A and B the B before the pass.
C9_MixRotatesByAPlusB ==
    [][\A t \in threads :
          MixPass(t) =>
             /\ MixPassStores(t)
             /\ IsRotl(frames'[t].b_block,
                       wrapping_add(wrapping_add(frames[t].l[frames[t].j + 1],
                                                 frames'[t].a_block),
                                    frames[t].b_block),
                       AmountModW(wrapping_add(frames'[t].a_block,
                                               frames[t].b_block)))]_vars

\* a pass has completed from a nonzero B: the accumulators are the words
\* just stored, and one more pass is due
C9_Witness ==
    \E t \in threads :
        LET f == frames[t]
        IN  /\ f.pc = "mix" /\ f.iter >= 2 /\ f.iter < 3 * MaxIters(f)
            /\ f.b_block # min(data)
            /\ \E x \in 1..Len(f.s_table) : f.s_table[x] = f.a_block
            /\ \E y \in 1..Len(f.l) : f.l[y] = f.b_block

\* C10: on a valid engine the mixing loop starts from A = B = 0, i = j = 0,
\* runs exactly 3 * max(t, len(L)) passes with t = 2 * (rounds + 1) and then
\* ends, with 0 <= i < t, 0 <= j < len(L) and len(L) >= 1 in every pass
\* (L = [0] for the empty key).
C10_MixLoopBounds ==
    \A t \in threads :
        LET f == frames[t]
            bound == 3 * Max(2 * (rounds + 1), Len(f.l))
        IN  ValidEngine =>
               /\ f.pc = "mix" =>
                     /\ Len(f.s_table) = 2 * (rounds + 1)
                     /\ Len(f.l) >= 1
                     /\ (key = <<>> /\ f.iter = 0) => f.l = <<min(data)>>
                     /\ 0 <= f.i /\ f.i < Len(f.s_table)
                     /\ 0 <= f.j /\ f.j < Len(f.l)
                     /\ f.iter <= bound
                     /\ f.iter = 0 =>
                           /\ f.a_block = min(data) /\ f.b_block = min(data)
                           /\ f.i = 0 /\ f.j = 0
               /\ f.outcome.kind = "Panic" => f.outcome.at # "mix"
               /\ ( \/ f.pc \in {"whiten", "rounds"}
                    \/ (f.pc = "ret" /\ f.outcome.kind = "Ok" /\ f.op # "none"
                        /\ f.op \notin {"rotate_left", "rotate_right"}) )
                  => f.iter = bound

=============================================================================
